---- MODULE Spec2Model ----
(***************************************************************************)
(* Model of google/cloud/bigtable/examples/bigtable_hello_instance_admin.cc *)
(*                                                                         *)
(* main() is a straight-line sequence of calls into cbt::InstanceAdmin.    *)
(* The model keeps main's local variables, the position of the main        *)
(* thread, the state of the two futures of the asynchronous CreateInstance *)
(* call, the instances that exist in the project on the service side, and  *)
(* a log of every admin call that main issued together with its result.    *)
(***************************************************************************)
EXTENDS Integers, Sequences, FiniteSets, TLC

\* ------------------------------------------------------------------ bounds
MaxArgc == 6
NumInstanceIds == 2
NumLocations == 2

\* argc value main accepts: program name plus four arguments
RequiredArgc == 5

InstanceIds == 1..NumInstanceIds
Locations == 1..NumLocations
Statuses == {"OK", "FAIL"}

VARIABLES
  argc,             \* main's argc
  instance_id,      \* argv[2]
  zone,             \* argv[4]
  pc,               \* position of the main thread
  exit_status,      \* -1 while running, else main's return value
  client_connected, \* instance_admin has been constructed
  instances,        \* the local StatusOr<InstanceList> instances
  instance_exists,  \* the local bool instance_exists
  f,                \* future returned by CreateInstance
  creation_done,    \* future returned by .then()
  calls,            \* log of the admin calls issued, in order
  project,          \* service side: existing instance id -> its location
  project0          \* the project as it was when the program started

vars == <<argc, instance_id, zone, pc, exit_status, client_connected, instances,
          instance_exists, f, creation_done, calls, project, project0>>

\* ------------------------------------------------------- service behaviour
\* instance_admin.project_name()
project_name == <<"projects", "p">>

\* Name of an instance as the service reports it in Instance::name()
ServiceInstanceName(id) == <<project_name[1], project_name[2], "instances", id>>

\* The instances a ListInstances response carries: the service has no
\* information about the instances located in failed_locations.
ListedInstances(proj, failed_locations) ==
  {ServiceInstanceName(i) : i \in {j \in DOMAIN proj : proj[j] \notin failed_locations}}

\* Outcomes the service can give to CreateInstance(id): it cannot succeed
\* when the instance already exists.
CreateOutcomes(proj, id) ==
  IF id \in DOMAIN proj THEN {"FAIL"} ELSE Statuses

\* ------------------------------------------------------------ main helpers
\* slip: the usage check only rejects too few arguments
ArgcAcceptedAtLeast(n) == n >= RequiredArgc

ArgcAccepted(n) == n = RequiredArgc

\* slip: the "/instances/" separator is left out of the name
InstanceNameNoSeparator(pname, id) == pname \o <<id>>

\* instance_admin.project_name() + "/instances/" + instance_id
InstanceName(pname, id) == pname \o <<"instances", id>>

\* std::find_if(...) != end()
InstanceFound(list, name) == \E i \in list : i = name

\* slip: failed_locations is treated as an error
ListThrowsOnFailedLocations(r) == r.status # "OK" \/ r.failed_locations # {}

\* !instances / !cluster_list : the StatusOr holds no value
ListThrows(r) == r.status # "OK"

\* slip: the status is not checked
ThrowsNever(status) == FALSE

\* !instance / !delete_status.ok()
Throws(status) == status # "OK"

\* body of the continuation attached with .then()
ContinuationResult(status) == IF status # "OK" THEN "exception" ELSE "value"

\* slip: the main flow does not wait for the future to be satisfied
IsReadyOnceAttached(fut) == fut # "none"

\* creation_done.get() returns only once the future is satisfied
IsReady(fut) == fut \in {"value", "exception"}

\* slip: GetInstance and ListClusters in the other order
ContinueSwapped(step) ==
  CASE step = "list2" -> "clusters"
    [] step = "clusters" -> "get"
    [] step = "get" -> "delete"
    [] step = "delete" -> "exit"

\* slip: the program returns without deleting the instance
ContinueSkipDelete(step) ==
  CASE step = "list2" -> "get"
    [] step = "get" -> "clusters"
    [] step = "clusters" -> "exit"
    [] step = "delete" -> "exit"

\* statement order of main after the creation block
Continue(step) ==
  CASE step = "list2" -> "get"
    [] step = "get" -> "clusters"
    [] step = "clusters" -> "delete"
    [] step = "delete" -> "exit"

NoList == [status |-> "NONE", names |-> {}, failed_locations |-> {}]

\* arg is the sequence of arguments of the call
Call(op, arg, status, names, failed) ==
  [op |-> op, arg |-> arg, status |-> status, names |-> names, partial |-> failed # {}]

\* -------------------------------------------------------------------- Init
\* The environment passes the program name, so argc >= 1; the project holds
\* any set of instances, each in one location.
Init ==
  /\ argc \in 1..MaxArgc
  /\ instance_id \in InstanceIds
  /\ zone \in Locations
  /\ pc = "start"
  /\ exit_status = -1
  /\ client_connected = FALSE
  /\ instances = NoList
  /\ instance_exists = FALSE
  /\ f = "none"
  /\ creation_done = "none"
  /\ calls = <<>>
  /\ project \in UNION {[S -> Locations] : S \in SUBSET InstanceIds}
  /\ project0 = project

\* slip: a failure restarts the sequence instead of ending the program
CaughtRetry ==
  /\ pc' = "list1"
  /\ UNCHANGED exit_status

\* catch (std::exception const&) { ...; return 1; }
Caught ==
  /\ pc' = "exit"
  /\ exit_status' = 1

\* fall through to the next statement; main returns 0 after the last one
Proceed(step) ==
  /\ pc' = Continue(step)
  /\ exit_status' = IF Continue(step) = "exit" THEN 0 ELSE exit_status

\* ----------------------------------------------------------------- actions
Start ==
  /\ pc = "start"
  /\ IF ~ArgcAccepted(argc)
       THEN /\ pc' = "exit"
            /\ exit_status' = 1
            /\ UNCHANGED client_connected
       ELSE /\ client_connected' = TRUE
            /\ pc' = "list1"
            /\ UNCHANGED exit_status
  /\ UNCHANGED <<argc, instance_id, zone, instances, instance_exists, f,
                 creation_done, calls, project, project0>>

CheckInstanceExists ==
  /\ pc = "list1"
  /\ \E st \in Statuses, failed \in SUBSET Locations :
       LET r == IF st = "OK"
                  THEN [status |-> st, names |-> ListedInstances(project, failed),
                        failed_locations |-> failed]
                  ELSE [status |-> st, names |-> {}, failed_locations |-> {}]
           found == InstanceFound(r.names, InstanceName(project_name, instance_id))
       IN /\ instances' = r
          /\ calls' = Append(calls, Call("ListInstances", <<>>, r.status,
                                         r.names, r.failed_locations))
          /\ IF ListThrows(r)
               THEN /\ Caught
                    /\ UNCHANGED instance_exists
               ELSE /\ instance_exists' = found
                    /\ pc' = IF found THEN "list2" ELSE "create"
                    /\ UNCHANGED exit_status
  /\ UNCHANGED <<argc, instance_id, zone, client_connected, f, creation_done,
                 project, project0>>

\* instance_admin.CreateInstance(config): the request is sent and a future
\* for its result is returned
CreateInstance ==
  /\ pc = "create"
  /\ calls' = Append(calls, Call("CreateInstance", <<instance_id>>, "PENDING", {}, {}))
  /\ f' = "pending"
  /\ pc' = "then"
  /\ UNCHANGED <<argc, instance_id, zone, exit_status, client_connected,
                 instances, instance_exists, creation_done, project, project0>>

\* .then(continuation): a continuation attached to a future that is already
\* satisfied runs at once, otherwise it runs when the future is satisfied
AttachContinuation ==
  /\ pc = "then"
  /\ creation_done' = IF f \in Statuses THEN ContinuationResult(f) ELSE "pending"
  /\ pc' = "wait"
  /\ UNCHANGED <<argc, instance_id, zone, exit_status, client_connected,
                 instances, instance_exists, f, calls, project, project0>>

\* The service finishes the creation on another thread: the future f is
\* satisfied, and the continuation runs if it is attached already
CreationCompletes ==
  /\ f = "pending"
  /\ \E st \in CreateOutcomes(project, instance_id) :
       /\ f' = st
       /\ calls' = [calls EXCEPT ![Len(calls)].status = st]
       /\ project' = IF st = "OK"
                       THEN [i \in DOMAIN project \cup {instance_id} |->
                               IF i = instance_id THEN zone ELSE project[i]]
                       ELSE project
       /\ creation_done' = IF creation_done = "pending"
                             THEN ContinuationResult(st)
                             ELSE creation_done
  /\ UNCHANGED <<argc, instance_id, zone, pc, exit_status, client_connected,
                 instances, instance_exists, project0>>

\* creation_done.get(): blocks, then rethrows what the continuation threw
WaitCreationDone ==
  /\ pc = "wait"
  /\ IsReady(creation_done)
  /\ IF creation_done = "exception"
       THEN Caught
       ELSE /\ pc' = "list2"
            /\ UNCHANGED exit_status
  /\ UNCHANGED <<argc, instance_id, zone, client_connected, instances,
                 instance_exists, f, creation_done, calls, project, project0>>

ListInstances ==
  /\ pc = "list2"
  /\ \E st \in Statuses, failed \in SUBSET Locations :
       LET r == IF st = "OK"
                  THEN [status |-> st, names |-> ListedInstances(project, failed),
                        failed_locations |-> failed]
                  ELSE [status |-> st, names |-> {}, failed_locations |-> {}]
       IN /\ instances' = r
          /\ calls' = Append(calls, Call("ListInstances", <<>>, r.status,
                                         r.names, r.failed_locations))
          /\ IF ListThrows(r)
               THEN Caught
               ELSE Proceed("list2")
  /\ UNCHANGED <<argc, instance_id, zone, client_connected, instance_exists, f,
                 creation_done, project, project0>>

GetInstance ==
  /\ pc = "get"
  /\ \E st \in Statuses :
       /\ calls' = Append(calls, Call("GetInstance", <<instance_id>>, st, {}, {}))
       /\ IF Throws(st)
            THEN Caught
            ELSE Proceed("get")
  /\ UNCHANGED <<argc, instance_id, zone, client_connected, instances,
                 instance_exists, f, creation_done, project, project0>>

ListClusters ==
  /\ pc = "clusters"
  /\ \E st \in Statuses, failed \in SUBSET Locations :
       LET r == IF st = "OK"
                  THEN [status |-> st, failed_locations |-> failed]
                  ELSE [status |-> st, failed_locations |-> {}]
       IN /\ calls' = Append(calls, Call("ListClusters", <<instance_id>>, r.status,
                                         {}, r.failed_locations))
          /\ IF ListThrows(r)
               THEN Caught
               ELSE Proceed("clusters")
  /\ UNCHANGED <<argc, instance_id, zone, client_connected, instances,
                 instance_exists, f, creation_done, project, project0>>

DeleteInstance ==
  /\ pc = "delete"
  /\ \E st \in Statuses :
       /\ calls' = Append(calls, Call("DeleteInstance", <<instance_id>>, st, {}, {}))
       /\ project' = IF st = "OK"
                       THEN [i \in DOMAIN project \ {instance_id} |-> project[i]]
                       ELSE project
       /\ IF Throws(st)
            THEN Caught
            ELSE Proceed("delete")
  /\ UNCHANGED <<argc, instance_id, zone, client_connected, instances,
                 instance_exists, f, creation_done, project0>>

MainThread ==
  \/ Start
  \/ CheckInstanceExists
  \/ CreateInstance
  \/ AttachContinuation
  \/ WaitCreationDone
  \/ ListInstances
  \/ GetInstance
  \/ ListClusters
  \/ DeleteInstance

Next ==
  \/ MainThread
  \/ CreationCompletes

Spec == Init /\ [][Next]_vars

\* Every admin call returns and the creation future is satisfied
FairSpec == Spec /\ WF_vars(MainThread) /\ WF_vars(CreationCompletes)
\* ------------------------------------------------------------- properties
CallIdx == 1..Len(calls)
LastCall == calls[Len(calls)]
Called(op) == \E k \in CallIdx : calls[k].op = op
NoFailure == \A k \in CallIdx : calls[k].status # "FAIL"
Signature(k) == <<calls[k].op, calls[k].arg>>

\* the first ListInstances returned OK and did not list the instance
JudgedAbsent ==
  /\ Len(calls) >= 1
  /\ calls[1].status = "OK"
  /\ <<"projects", "p", "instances", instance_id>> \notin calls[1].names

ExpectedCalls ==
  <<  <<"ListInstances", <<>>>>  >>
  \o (IF JudgedAbsent THEN << <<"CreateInstance", <<instance_id>>>> >> ELSE <<>>)
  \o << <<"ListInstances", <<>>>>,
        <<"GetInstance", <<instance_id>>>>,
        <<"ListClusters", <<instance_id>>>>,
        <<"DeleteInstance", <<instance_id>>>> >>

\* C1: with four arguments and no failing call, the calls issued so far are
\* a prefix of ListInstances, [CreateInstance when judged absent],
\* ListInstances, GetInstance(id), ListClusters(id), DeleteInstance(id), and
\* the finished run has issued exactly that sequence and returned 0.
C1_CallOrder ==
  (argc = RequiredArgc /\ NoFailure) =>
     /\ Len(calls) <= Len(ExpectedCalls)
     /\ \A k \in CallIdx : Signature(k) = ExpectedCalls[k]
     /\ pc = "exit" => (Len(calls) = Len(ExpectedCalls) /\ exit_status = 0)

C1_Witness ==
  /\ pc = "exit"
  /\ exit_status = 0
  /\ Len(calls) = 6
  /\ Called("CreateInstance")

\* C2: CreateInstance is called exactly when the first ListInstances returned
\* OK without listing project_name/instances/instance_id (from the moment the
\* main flow has passed the creation statement).
C2_CreateIffJudgedAbsent ==
  Called("CreateInstance") <=> (JudgedAbsent /\ pc # "create")

C2_Witness ==
  /\ Called("CreateInstance")
  /\ calls[1].names # {}
  /\ pc = "exit"

\* C3: an instance that exists in the project when the program starts is
\* never created again, whatever failed_locations the first listing reports.
C3_CreateOnlyIfAbsent ==
  instance_id \in DOMAIN project0 => ~Called("CreateInstance")

\* C4: a failed admin call is the last call issued, and the program ends
\* with exit status 1.
C4_FailureStops ==
  /\ [](\A k \in CallIdx : calls[k].status = "FAIL" =>
           /\ k = Len(calls)
           /\ exit_status # 0
           /\ pc = "exit" => exit_status = 1)
  /\ (\E k \in CallIdx : calls[k].status = "FAIL")
        ~> (pc = "exit" /\ exit_status = 1)

C4_Witness ==
  /\ Len(calls) = 4
  /\ LastCall.op = "GetInstance"
  /\ LastCall.status = "FAIL"
  /\ exit_status = 1

\* C5: once a call later than CreateInstance has been issued, the creation
\* has completed and its continuation has run to the end.
C5_BlocksOnCreation ==
  \A k \in CallIdx :
    (calls[k].op = "CreateInstance" /\ (k < Len(calls) \/ pc \notin {"then", "wait", "exit"})) =>
       /\ f = "OK"
       /\ calls[k].status = "OK"
       /\ creation_done = "value"

C5_Witness ==
  /\ Len(calls) = 3
  /\ calls[2].op = "CreateInstance"
  /\ calls[3].op = "ListInstances"

\* C6: with an argument count other than 5 the program returns 1 without
\* constructing the admin client and without issuing an admin call.
C6_UsageExit ==
  argc # RequiredArgc =>
     /\ ~client_connected
     /\ calls = <<>>
     /\ pc \in {"start", "exit"}
     /\ pc = "exit" => exit_status = 1

C6_Witness ==
  /\ argc > RequiredArgc
  /\ pc = "exit"
  /\ exit_status = 1

\* where the main flow stands after call k returned OK, as decided by the
\* status and the returned instances alone
StepAfterOk(k) ==
  CASE calls[k].op = "ListInstances" /\ k = 1 ->
         IF JudgedAbsent THEN "create" ELSE "list2"
    [] calls[k].op = "ListInstances" /\ k > 1 -> "get"
    [] calls[k].op = "ListClusters" -> "delete"
    [] OTHER -> pc

\* C7: an OK result with non-empty failed_locations is followed by the step
\* the same result with empty failed_locations is followed by, and exit
\* status 1 always comes from a bad argument count or a failed call.
C7_FailedLocationsIgnored ==
  /\ \A k \in CallIdx :
       (calls[k].status = "OK" /\ calls[k].partial) =>
          (k < Len(calls) \/ pc = StepAfterOk(k))
  /\ exit_status = 1 =>
       (argc # RequiredArgc \/ (Len(calls) > 0 /\ LastCall.status = "FAIL"))

C7_Witness ==
  /\ pc = "exit"
  /\ exit_status = 0
  /\ Len(calls) = 6
  /\ calls[1].partial
  /\ calls[3].partial
  /\ calls[5].partial

\* C8: a run that returns 0 has deleted the instance, and once ListClusters
\* has returned OK DeleteInstance(instance_id) is issued, whether or not
\* the program created the instance.
C8_DeleteAlways ==
  /\ [](exit_status = 0 =>
          (LastCall.op = "DeleteInstance" /\ LastCall.arg = <<instance_id>>))
  /\ (Len(calls) > 0 /\ LastCall.op = "ListClusters" /\ LastCall.status = "OK")
        ~> (Called("DeleteInstance") /\ LastCall.arg = <<instance_id>>)

C8_Witness ==
  /\ instance_id \in DOMAIN project0
  /\ ~Called("CreateInstance")
  /\ Called("DeleteInstance")
  /\ exit_status = 0

Rank(p) ==
  CASE p = "start" -> 0
    [] p = "list1" -> 1
    [] p = "create" -> 2
    [] p = "then" -> 3
    [] p = "wait" -> 4
    [] p = "list2" -> 5
    [] p = "get" -> 6
    [] p = "clusters" -> 7
    [] p = "delete" -> 8
    [] p = "exit" -> 9

Count(op) == Cardinality({k \in CallIdx : calls[k].op = op})

\* C9: every run ends with exit status 0 or 1, the main flow only moves
\* forward, and no admin call is issued more often than the sequence holds it.
C9_Terminates ==
  /\ <>(pc = "exit" /\ exit_status \in {0, 1})
  /\ [][Rank(pc') >= Rank(pc) /\ (Len(calls') > Len(calls) => Rank(pc') > Rank(pc))]_vars
  /\ [](/\ Count("ListInstances") <= 2
        /\ \A op \in {"CreateInstance", "GetInstance", "ListClusters", "DeleteInstance"} :
             Count(op) <= 1)

C9_Witness ==
  /\ pc = "exit"
  /\ exit_status = 1
  /\ Count("ListInstances") = 2
====
